---- MODULE Spec2Model ----
(***************************************************************************)
(* heapspurs: the heap-dump decoder (package heapdump) and the reverse-    *)
(* ownership index and its queries (package treeclimber).                  *)
(*                                                                         *)
(* The dump is a stream of primitive reads.  One token stands for the      *)
(* bytes one primitive read consumes: a varint (well formed, or one that   *)
(* overflows 64 bits, for which binary.ReadUvarint returns the partial     *)
(* value and an error) or a run of raw bytes.  The end of the token        *)
(* sequence is the end of the input.                                       *)
(***************************************************************************)
EXTENDS Integers, Sequences, FiniteSets, TLC

(* ------------------------------ bounds -------------------------------- *)

\* Most records of a generated dump body (Spec).
MaxRecs == 3

(* --------------------------- small helpers ---------------------------- *)

Range(f) == {f[x] : x \in DOMAIN f}

\* Go map assignment m[k] = v.
MapPut(m, k, v) == [x \in (DOMAIN m) \cup {k} |-> IF x = k THEN v ELSE m[x]]

EmptyMap == <<>>

RECURSIVE Concat(_)
Concat(ss) == IF ss = <<>> THEN <<>> ELSE Head(ss) \o Concat(Tail(ss))

(* ------------------------------ records ------------------------------- *)

\* const Header = "go1.7 heap dump\n", as bytes.
Header == <<103, 111, 49, 46, 55, 32, 104, 101, 97, 112, 32, 100, 117, 109, 112, 10>>

\* RecordType constants: tag -> variant, in tag order 0..17.
RecordTypes ==
  << "Eof", "Object", "OtherRoot", "TypeDescriptor", "Goroutine", "StackFrame",
     "DumpParams", "RegisteredFinalizer", "Itab", "OsThread", "MemStats",
     "QueuedFinalizer", "DataSegment", "BssSegment", "DeferRecord", "PanicRecord",
     "AllocFreeProfileRecord", "AllocStackTraceSample" >>

TagOf(kind) == (CHOOSE i \in 1..Len(RecordTypes) : RecordTypes[i] = kind) - 1

\* A freshly allocated record of a variant (&Object{}, ...): zero values.  id is
\* the identity of the allocation (records are handled by pointer); the fields
\* are those the index and the queries read.
Blank(kind) ==
  [ id |-> 0, kind |-> kind, Address |-> 0, Contents |-> <<>>, Fields |-> <<>>,
    ChildPointer |-> 0, BigEndian |-> FALSE, PointerSize |-> 0, ObjectAddress |-> 0 ]

\* The nil record / nil *DumpParams.
Nil == Blank("nil")

\* The variants with a GetAddress method (interface Addressable).
Addressable(r) ==
  r.kind \in { "Object", "OtherRoot", "TypeDescriptor", "Goroutine", "StackFrame",
               "Itab", "DataSegment", "BssSegment", "DeferRecord", "PanicRecord",
               "AllocStackTraceSample" }

\* The variants with GetAddress, GetContents and GetFields (interface Owner).
Owner(r) == r.kind \in {"Object", "StackFrame", "DataSegment", "BssSegment"}

GetAddress(r) == r.Address

(* ------------------------- primitive readers -------------------------- *)

UV(n) == [t |-> "uv", n |-> n, b |-> <<>>, ok |-> TRUE]
\* A varint of more than 64 bits whose partial value is n.
OverflowUV(n) == [t |-> "uv", n |-> n, b |-> <<>>, ok |-> FALSE]
Raw(b) == [t |-> "raw", n |-> 0, b |-> b, ok |-> TRUE]

\* binary.ReadUvarint: the value, the error and the next position.  At the end
\* of the input it returns 0 and io.EOF; an overflowing varint is consumed and
\* its partial value returned with the error.
ReadUvarint(s, p) ==
  IF p > Len(s) THEN [v |-> 0, err |-> "EOF", pos |-> p]
  ELSE IF s[p].ok THEN [v |-> s[p].n, err |-> "nil", pos |-> p + 1]
  ELSE [v |-> s[p].n, err |-> "overflow", pos |-> p + 1]

\* io.ReadFull into a buffer of n bytes: nothing is read when n = 0.
ReadFull(s, p, n) ==
  IF n = 0 THEN [v |-> <<>>, err |-> "nil", pos |-> p]
  ELSE IF p > Len(s) THEN [v |-> <<>>, err |-> "EOF", pos |-> p]
  ELSE IF Len(s[p].b) < n THEN [v |-> s[p].b, err |-> "ErrUnexpectedEOF", pos |-> p + 1]
  ELSE [v |-> s[p].b, err |-> "nil", pos |-> p + 1]

\* "Read X as bytes" / "Read X as string": a varint length, then the bytes.
ReadBytes(s, p) ==
  LET n == ReadUvarint(s, p) IN
  IF n.err # "nil" THEN [v |-> <<>>, err |-> n.err, pos |-> n.pos]
  ELSE ReadFull(s, n.pos, n.v)

\* "Read X as bool".
ReadBool(s, p) ==
  LET n == ReadUvarint(s, p) IN [v |-> (n.v # 0), err |-> n.err, pos |-> n.pos]

\* "Read Fields as fieldlist": (kind, offset) pairs up to a kind of 0.  The
\* error of the offset read is not looked at (the test after it is on kind
\* again): the value it returned is appended and the loop reads the next kind.
RECURSIVE ReadFieldList(_, _, _)
ReadFieldList(s, p, acc) ==
  LET kind == ReadUvarint(s, p) IN
  IF kind.err # "nil" THEN [v |-> acc, err |-> kind.err, pos |-> kind.pos]
  ELSE IF kind.v = 0 THEN [v |-> acc, err |-> "nil", pos |-> kind.pos]
  ELSE LET value == ReadUvarint(s, kind.pos) IN
       ReadFieldList(s, value.pos, Append(acc, value.v))

\* The frames of an AllocFreeProfileRecord: Name, Filename, Line, FrameCount times.
RECURSIVE ReadFrames(_, _, _)
ReadFrames(s, p, n) ==
  IF n = 0 THEN [v |-> 0, err |-> "nil", pos |-> p]
  ELSE LET name == ReadBytes(s, p) IN
       IF name.err # "nil" THEN [v |-> 0, err |-> name.err, pos |-> name.pos]
       ELSE LET file == ReadBytes(s, name.pos) IN
            IF file.err # "nil" THEN [v |-> 0, err |-> file.err, pos |-> file.pos]
            ELSE LET line == ReadUvarint(s, file.pos) IN
                 IF line.err # "nil" THEN [v |-> 0, err |-> line.err, pos |-> line.pos]
                 ELSE ReadFrames(s, line.pos, n - 1)

ReadFrameList(s, p) ==
  LET n == ReadUvarint(s, p) IN
  IF n.err # "nil" THEN [v |-> 0, err |-> n.err, pos |-> n.pos]
  ELSE ReadFrames(s, n.pos, n.v)

ReadField(type, s, p) ==
  CASE type = "uv" -> ReadUvarint(s, p)
    [] type = "bool" -> ReadBool(s, p)
    [] type = "bytes" -> ReadBytes(s, p)
    [] type = "fieldlist" -> ReadFieldList(s, p, <<>>)
    [] type = "frames" -> ReadFrameList(s, p)

(* ------------------------- per-variant readers ------------------------ *)

F(name, type) == [name |-> name, type |-> type]

\* A field the model does not keep.
Skip(type) == F("", type)

Skips(n) == [i \in 1..n |-> Skip("uv")]

\* The Read method of each variant: its fields in wire order.
Schema(kind) ==
  CASE kind = "Eof" -> <<>>
    [] kind = "Object" ->
         <<F("Address", "uv"), F("Contents", "bytes"), F("Fields", "fieldlist")>>
    [] kind = "OtherRoot" -> <<Skip("bytes"), F("Address", "uv")>>
    [] kind = "TypeDescriptor" ->
         <<F("Address", "uv"), Skip("uv"), Skip("bytes"), Skip("bool")>>
    [] kind = "Goroutine" ->
         <<F("Address", "uv")>> \o Skips(4) \o <<Skip("bool"), Skip("bool"), Skip("uv"),
           Skip("bytes")>> \o Skips(4)
    [] kind = "StackFrame" ->
         <<F("Address", "uv"), Skip("uv"), F("ChildPointer", "uv"), F("Contents", "bytes"),
           Skip("uv"), Skip("uv"), Skip("uv"), Skip("bytes"), F("Fields", "fieldlist")>>
    [] kind = "DumpParams" ->
         <<F("BigEndian", "bool"), F("PointerSize", "uv"), Skip("uv"), Skip("uv"),
           Skip("bytes"), Skip("bytes"), Skip("uv")>>
    [] kind \in {"RegisteredFinalizer", "QueuedFinalizer"} ->
         <<F("ObjectAddress", "uv")>> \o Skips(4)
    [] kind = "Itab" -> <<F("Address", "uv"), Skip("uv")>>
    [] kind = "OsThread" -> Skips(3)
    [] kind = "MemStats" -> Skips(24) \o Skips(256) \o Skips(1)
    [] kind \in {"DataSegment", "BssSegment"} ->
         <<F("Address", "uv"), F("Contents", "bytes"), F("Fields", "fieldlist")>>
    [] kind = "DeferRecord" -> <<F("Address", "uv")>> \o Skips(6)
    [] kind = "PanicRecord" -> <<F("Address", "uv")>> \o Skips(5)
    [] kind = "AllocFreeProfileRecord" ->
         <<Skip("uv"), Skip("uv"), Skip("frames"), Skip("uv"), Skip("uv")>>
    [] kind = "AllocStackTraceSample" -> <<F("Address", "uv"), Skip("uv")>>

\* record.Read(reader): the fields in order, returning at the first read whose
\* error is looked at.  The record keeps what was read before the error.
RECURSIVE ReadFrom(_, _, _, _, _)
ReadFrom(schema, i, s, p, rec) ==
  IF i > Len(schema) THEN [rec |-> rec, err |-> "nil", pos |-> p]
  ELSE LET f == ReadField(schema[i].type, s, p)
           r == IF schema[i].name = "" \/ f.err # "nil" THEN rec
                ELSE [rec EXCEPT ![schema[i].name] = f.v]
       IN IF f.err # "nil" THEN [rec |-> r, err |-> f.err, pos |-> f.pos]
          ELSE ReadFrom(schema, i + 1, s, f.pos, r)

Read(kind, s, p) == ReadFrom(Schema(kind), 1, s, p, Blank(kind))

\* ReadHeader: 16 bytes, which must be the magic.
ReadHeader(s, p) ==
  LET val == ReadFull(s, p, Len(Header)) IN
  IF val.err # "nil" THEN [err |-> val.err, pos |-> val.pos]
  ELSE IF val.v # Header THEN [err |-> "BadRead", pos |-> val.pos]
  ELSE [err |-> "nil", pos |-> val.pos]

\* ReadRecord: the tag, the variant it names, the variant's Read.
ReadRecord(s, p) ==
  LET rt == ReadUvarint(s, p) IN
  IF rt.err # "nil" THEN [rec |-> Nil, err |-> rt.err, pos |-> rt.pos]
  ELSE IF rt.v >= Len(RecordTypes)
       THEN [rec |-> Nil, err |-> "UnexpectedRecordType", pos |-> rt.pos]
       ELSE Read(RecordTypes[rt.v + 1], s, rt.pos)

(* ------------------------- pointer extraction ------------------------- *)

\* binary.LittleEndian.UintN / binary.BigEndian.UintN of a run of N bytes.
RECURSIVE LittleEndianUint(_)
LittleEndianUint(b) == IF b = <<>> THEN 0 ELSE b[1] + 256 * LittleEndianUint(Tail(b))

RECURSIVE BigEndianUint(_)
BigEndianUint(b) ==
  IF b = <<>> THEN 0 ELSE 256 * BigEndianUint(SubSeq(b, 1, Len(b) - 1)) + b[Len(b)]

\* A read that takes the bytes beyond the contents as 0.
PointerTargetPadded(contents, offset, p) ==
  IF p.PointerSize \notin {2, 4, 8} THEN [panic |-> TRUE, v |-> 0]
  ELSE LET b == [k \in 1..p.PointerSize |->
                   IF offset + k <= Len(contents) THEN contents[offset + k] ELSE 0] IN
       [panic |-> FALSE, v |-> IF p.BigEndian THEN BigEndianUint(b) ELSE LittleEndianUint(b)]

\* One iteration of the loop of GetPointerInfo: byteOrder.UintN(contents[offset:]).
\* The slice expression panics when offset > len(contents), UintN when fewer
\* than N bytes are left, and the default case on any other pointer size.
PointerTarget(contents, offset, p) ==
  IF p.PointerSize \notin {2, 4, 8} \/ offset + p.PointerSize > Len(contents)
  THEN [panic |-> TRUE, v |-> 0]
  ELSE LET b == SubSeq(contents, offset + 1, offset + p.PointerSize) IN
       [panic |-> FALSE, v |-> IF p.BigEndian THEN BigEndianUint(b) ELSE LittleEndianUint(b)]

\* GetPointerInfo that reads a nil p as parameters of zero values.
GetPointerInfoOfNil(o, p) ==
  LET t == [i \in 1..Len(o.Fields) |-> PointerTarget(o.Contents, o.Fields[i], p)] IN
  [ panic |-> \E i \in 1..Len(o.Fields) : t[i].panic,
    pointerSource |-> [i \in 1..Len(o.Fields) |-> GetAddress(o) + o.Fields[i]],
    pointerTarget |-> [i \in 1..Len(o.Fields) |-> t[i].v] ]

\* GetPointerInfo: panics on a nil p (p.BigEndian is read first), else the
\* parallel lists of sources and targets, one entry per field.
GetPointerInfo(o, p) ==
  IF p = Nil THEN [panic |-> TRUE, pointerSource |-> <<>>, pointerTarget |-> <<>>]
  ELSE LET t == [i \in 1..Len(o.Fields) |-> PointerTarget(o.Contents, o.Fields[i], p)] IN
       [ panic |-> \E i \in 1..Len(o.Fields) : t[i].panic,
         pointerSource |-> [i \in 1..Len(o.Fields) |-> GetAddress(o) + o.Fields[i]],
         pointerTarget |-> [i \in 1..Len(o.Fields) |-> t[i].v] ]

(* ----------------------------- registries ----------------------------- *)

\* A line of the OID file is the tokens before its newline; a token is its
\* text and, where the text is an unsigned integer (decimal, or with a base
\* prefix as in 0x2), the value.
Num(n, text) == [isInt |-> TRUE, n |-> n, text |-> text]

Word(text) == [isInt |-> FALSE, n |-> 0, text |-> text]

\* fmt.Fscanln(r, &oid, &name) on a line: the count of items scanned and the
\* error; every item needs a token, the first one that of an integer, and
\* after the last item the line must end.
Fscanln(line) ==
  IF line = <<>> THEN [n |-> 0, err |-> "unexpected newline", oid |-> 0, name |-> ""]
  ELSE IF ~line[1].isInt THEN [n |-> 0, err |-> "expected integer", oid |-> 0, name |-> ""]
  ELSE IF Len(line) = 1
  THEN [n |-> 1, err |-> "unexpected newline", oid |-> line[1].n, name |-> ""]
  ELSE IF Len(line) > 2
  THEN [n |-> 2, err |-> "expected newline", oid |-> line[1].n, name |-> line[2].text]
  ELSE [n |-> 2, err |-> "nil", oid |-> line[1].n, name |-> line[2].text]

\* One iteration of the loop of ReadOids; at the end of the file Fscanln
\* returns io.EOF.
readOids(file, o) ==
  IF o.pos > Len(file) THEN [o EXCEPT !.pc = "done"]
  ELSE LET f == Fscanln(file[o.pos]) IN
       IF f.err # "nil" THEN [o EXCEPT !.pc = "failed", !.err = f.err]
       ELSE [o EXCEPT !.pos = @ + 1,
                      !.oidMap = IF f.n = 2 /\ f.oid > 0 /\ f.name # ""
                                 THEN MapPut(@, f.oid, f.name) ELSE @]

\* The Name Object.Read gives an Object: for contents of more than 8 bytes the
\* class name of the OID in the first 8 bytes, little endian, if oidMap has it.
NameOf(r, oids) ==
  IF r.kind = "Object" /\ Len(r.Contents) > 8
       /\ LittleEndianUint(SubSeq(r.Contents, 1, 8)) \in DOMAIN oids
  THEN oids[LittleEndianUint(SubSeq(r.Contents, 1, 8))]
  ELSE ""

(* ------------------------------- build -------------------------------- *)

\* The index fields of a TreeClimber before build has made the maps.
NewClimber == [params |-> Nil, memory |-> EmptyMap, owners |-> EmptyMap, finalizers |-> EmptyMap]

\* addOwner that starts a new list every time.
addOwnerReplacing(own, address, r) == MapPut(own, address, <<r>>)

\* addOwner: append r to owners[address], making the list when it is missing.
addOwner(own, address, r) ==
  MapPut(own, address, (IF address \in DOMAIN own THEN own[address] ELSE <<>>) \o <<r>>)

\* A loop over pointers that records the nil pointers as well.
RECURSIVE addOwnersOfNil(_, _, _, _)
addOwnersOfNil(own, pointers, i, r) ==
  IF i > Len(pointers) THEN own
  ELSE addOwnersOfNil(addOwner(own, pointers[i], r), pointers, i + 1, r)

\* The loop over pointers in build: addOwner for each non-zero pointer, in order.
RECURSIVE addOwners(_, _, _, _)
addOwners(own, pointers, i, r) ==
  IF i > Len(pointers) THEN own
  ELSE addOwners(IF pointers[i] # 0 THEN addOwner(own, pointers[i], r) ELSE own,
                 pointers, i + 1, r)

\* An insert that keeps the record already stored at the address.
memoryPutIfAbsent(mem, record) ==
  IF GetAddress(record) \in DOMAIN mem THEN mem ELSE MapPut(mem, GetAddress(record), record)

\* memory[a.GetAddress()] = record.
memoryPut(mem, record) == MapPut(mem, GetAddress(record), record)

\* The body of the read loop for one decoded record that is not Eof: the type
\* switch, the Addressable insert, the Owner pointers.
buildRecord(c, record) ==
  LET c1 == CASE record.kind = "DumpParams" -> [c EXCEPT !.params = record]
              [] record.kind \in {"QueuedFinalizer", "RegisteredFinalizer"} ->
                   [c EXCEPT !.finalizers = MapPut(@, record.ObjectAddress, record)]
              [] OTHER -> c
      c2 == IF Addressable(record) THEN [c1 EXCEPT !.memory = memoryPut(@, record)] ELSE c1
      pi == GetPointerInfo(record, c2.params)
  IN IF ~Owner(record) THEN [panic |-> FALSE, c |-> c2]
     ELSE IF pi.panic THEN [panic |-> TRUE, c |-> c2]
     ELSE [panic |-> FALSE,
           c |-> [c2 EXCEPT !.owners = addOwners(@, pi.pointerTarget, 1, record)]]

\* A read loop that does not stop at EndOfFile.
endsLoopNever(record) == FALSE

\* case *heapdump.Eof: break readloop.
endsLoop(record) == record.kind = "Eof"

\* A primitive read between positions p and rr.pos failed: the reader ran into
\* the end of the input or a tag it does not know (rr.err), or consumed a
\* varint that does not decode.
ReadFailure(s, p, rr) == rr.err # "nil" \/ \E k \in p..(rr.pos - 1) : ~s[k].ok

\* build up to the read loop: ReadHeader, then the three maps.
buildHeader(s, b) ==
  LET h == ReadHeader(s, b.pos) IN
  [b EXCEPT !.pos = h.pos, !.err = h.err,
            !.pc = IF h.err # "nil" THEN "failed" ELSE "reading",
            !.readFailed = ReadFailure(s, b.pos, h)]

\* The end of an iteration of the read loop: the error of ReadRecord is
\* returned, an EndOfFile record breaks the loop, any other record has gone
\* through the type switch (r is what that left).
readBuilt(b, rr, record, r, failed) ==
  IF rr.err # "nil"
  THEN [b EXCEPT !.pos = rr.pos, !.err = rr.err, !.pc = "failed", !.readFailed = failed]
  ELSE IF endsLoop(record)
  THEN [b EXCEPT !.pos = rr.pos, !.read = Append(@, record), !.pc = "done",
                 !.readFailed = failed]
  ELSE [b EXCEPT !.pos = rr.pos, !.read = Append(@, record), !.c = r.c,
                 !.pc = IF r.panic THEN "panicked" ELSE "reading",
                 !.readFailed = failed]

\* The body of the read loop for the record that was read.
readRecorded(s, b, rr, record) ==
  readBuilt(b, rr, record, buildRecord(b.c, record), b.readFailed \/ ReadFailure(s, b.pos, rr))

\* The record ReadRecord returns is a new allocation: its identity is its
\* place in the order of reading.
readDecoded(s, b, rr) == readRecorded(s, b, rr, [rr.rec EXCEPT !.id = Len(b.read) + 1])

\* One iteration of the read loop of build.
readloop(s, b) == readDecoded(s, b, ReadRecord(s, b.pos))

\* build(reader) as a whole.
RECURSIVE readloops(_, _)
readloops(s, b) == IF b.pc # "reading" THEN b ELSE readloops(s, readloop(s, b))

build(s) ==
  readloops(s, buildHeader(s, [pc |-> "start", pos |-> 1, err |-> "nil", c |-> NewClimber,
                               read |-> <<>>, readFailed |-> FALSE]))

(* --------------------------- generated dumps -------------------------- *)

\* The bytes of one field, as the runtime's dump writer lays them out.
EncodeField(type, v, badOffset) ==
  CASE type = "uv" -> <<UV(v)>>
    [] type = "bool" -> <<UV(IF v THEN 1 ELSE 0)>>
    [] type = "bytes" -> IF v = <<>> THEN <<UV(0)>> ELSE <<UV(Len(v)), Raw(v)>>
    [] type = "fieldlist" ->
         Concat([i \in 1..Len(v) |->
                   <<UV(1), IF badOffset THEN OverflowUV(v[i]) ELSE UV(v[i])>>]) \o <<UV(0)>>
    [] type = "frames" -> <<UV(0)>>

SkipValue(type) == CASE type = "bytes" -> <<>> [] type = "bool" -> FALSE [] OTHER -> 0

\* The tokens of record r: tag, then the fields of its variant.  With badOffset
\* every offset varint of its field list is written as an overflowing varint.
EncodeRecord(r, badOffset) ==
  LET schema == Schema(r.kind) IN
  <<UV(TagOf(r.kind))>> \o
  Concat([i \in 1..Len(schema) |->
            EncodeField(schema[i].type,
                        IF schema[i].name = "" THEN SkipValue(schema[i].type)
                        ELSE r[schema[i].name],
                        badOffset)])

Encode(r) == EncodeRecord(r, FALSE)

DumpParams(big, size) == [Blank("DumpParams") EXCEPT !.BigEndian = big, !.PointerSize = size]

OwnerRec(kind, address, contents, fields) ==
  [Blank(kind) EXCEPT !.Address = address, !.Contents = contents, !.Fields = fields]

Frame(address, child, contents, fields) ==
  [OwnerRec("StackFrame", address, contents, fields) EXCEPT !.ChildPointer = child]

Plain(kind, address) == [Blank(kind) EXCEPT !.Address = address]

Finalizer(kind, address) == [Blank(kind) EXCEPT !.ObjectAddress = address]

\* The records a generated dump body is made of, as token runs: parameters
\* (little and big endian, a supported and an unsupported pointer size), two
\* owners that share a target and an address, an owner without pointer fields,
\* an owner whose offset varint overflows, non-owner records and a finalizer.
RecordPool ==
  { Encode(DumpParams(FALSE, 2)),
    Encode(DumpParams(TRUE, 2)),
    Encode(DumpParams(FALSE, 3)),
    Encode(OwnerRec("Object", 1, <<2, 0>>, <<0>>)),
    Encode(OwnerRec("BssSegment", 1, <<2, 0, 0, 0>>, <<0, 2>>)),
    Encode(Frame(2, 0, <<>>, <<>>)),
    EncodeRecord(OwnerRec("Object", 2, <<1, 0>>, <<0>>), TRUE),
    Encode(Plain("OtherRoot", 1)),
    Encode(Plain("TypeDescriptor", 2)),
    Encode(Finalizer("RegisteredFinalizer", 1)) }

Prefixes(s) == {SubSeq(s, 1, k) : k \in 1..(Len(s) - 1)}

\* How a dump ends: with nothing, with an EndOfFile record (and a record after
\* it), with a tag no variant has, with an owner whose field offset lies
\* outside its contents, or inside a record.
Endings ==
  { <<>>,
    Encode(Blank("Eof")),
    Encode(Blank("Eof")) \o Encode(OwnerRec("Object", 3, <<1, 0>>, <<0>>)),
    <<UV(Len(RecordTypes))>> \o Encode(Blank("Eof")),
    Encode(OwnerRec("Object", 2, <<1, 0>>, <<1>>)) \o Encode(Blank("Eof")) }
    \cup Prefixes(Encode(OwnerRec("Object", 1, <<2, 0>>, <<0>>)))

Bodies == UNION {[1..n -> RecordPool] : n \in 0..MaxRecs}

\* Headers ReadHeader refuses: no bytes, too few bytes, other bytes.
BadHeaders ==
  {<<>>, <<Raw(SubSeq(Header, 1, 12))>>, <<Raw([Header EXCEPT ![4] = 46])>>}

Streams ==
  {<<Raw(Header)>> \o Concat(b) \o e : b \in Bodies, e \in Endings}
    \cup {h \o Encode(Blank("Eof")) : h \in BadHeaders}

(* ------------------------------ queries ------------------------------- *)

\* Most lines of a query's output the model keeps (what is printed after them
\* is dropped from the record, not from the run).
MaxOut == 8

\* TreeClimber.visited: nil, or a map made by a query.
NilVisited == [isNil |-> TRUE, keys |-> {}]
makeVisited == [isNil |-> FALSE, keys |-> {}]

\* Error values: nil, fmt.Errorf("Cound not find record for address ..."),
\* fmt.Errorf("Loop: already visited address ...").
NoError == [what |-> "nil", address |-> 0]
NotFound(address) == [what |-> "notfound", address |-> address]
Loop(address) == [what |-> "loop", address |-> address]

NoCall == [op |-> "none", address |-> 0, depth |-> 0]

\* A printed line: a record's String() at a nesting level, an error, a root, a
\* child frame of a root.
Line(t, level, address, id) == [t |-> t, level |-> level, address |-> address, id |-> id]

Emit(m, line) == [m EXCEPT !.out = IF Len(@) < MaxOut THEN Append(@, line) ELSE @]

\* The variants with a String method (fmt.Stringer): a type assertion to
\* fmt.Stringer of any other record yields nil.
Stringer(r) == r.kind \in (Range(RecordTypes) \ {"DeferRecord", "PanicRecord"})

\* A mark made in the wrong map.
markVisitedInMemory(c, address) == [c EXCEPT !.memory = MapPut(@, address, Nil)]

\* A prologue that makes no mark.
markVisitedNot(c, address) == c

\* c.visited[address] = true.
markVisited(c, address) == [c EXCEPT !.visited.keys = @ \cup {address}]

\* The cgraph graph of WriteImage, as far as addNode drives it: its nodes by
\* name (the address), each with the attributes addNode sets, and the edges in
\* the order of their creation.
NoGraph == [nodes |-> EmptyMap, edges |-> <<>>]

\* graph.CreateNode(name): the node of that name, made if the graph has none.
CreateNode(g, address) ==
  IF address \in DOMAIN g.nodes THEN g
  ELSE [g EXCEPT !.nodes = MapPut(@, address, [shape |-> "none", label |-> <<>>,
                                                fill |-> "none", finalizer |-> FALSE])]

\* node.SetLabel, node.SetShape (the label of a StackFrame node is its stack).
SetNode(g, address, shape, label) ==
  [g EXCEPT !.nodes[address].shape = shape, !.nodes[address].label = label]

\* node.SetStyle(cgraph.FilledNodeStyle); node.SetFillColor(color).
Fill(g, address, color) == [g EXCEPT !.nodes[address].fill = color]

\* if spotlight { filled yellow }.
Spotlight(g, address, spotlight) == IF spotlight THEN Fill(g, address, "yellow") ELSE g

\* if finalizer != nil { red, pen width 5 }.
SetFinalizer(g, address, finalizer) == [g EXCEPT !.nodes[address].finalizer = finalizer]

\* An edge that gets the head label and the colour whatever it points at.
CreateEdgeRed(g, on, node, dest, ps) ==
  [g EXCEPT !.edges = Append(@, [from |-> on, to |-> node, dest |-> dest, ps |-> ps,
                                 head |-> <<dest, dest - node>>, color |-> "red"])]

\* graph.CreateEdge("", on, node); "if dest != address" the head label of dest
\* and offset and the colour red; ps is the source the tail label is looked up
\* for.
CreateEdge(g, on, node, dest, ps) ==
  [g EXCEPT !.edges = Append(@, [from |-> on, to |-> node, dest |-> dest, ps |-> ps,
                                 head |-> IF dest # node THEN <<dest, dest - node>> ELSE <<>>,
                                 color |-> IF dest # node THEN "red" ELSE "none"])]

\* GetPointersSourceAddress: the source of the first pointer of o whose target
\* is target, else 0.
GetPointersSourceAddress(o, target, p) ==
  LET pi == GetPointerInfo(o, p)
      hits == {i \in 1..Len(pi.pointerTarget) : pi.pointerTarget[i] = target}
  IN IF pi.panic THEN [panic |-> TRUE, v |-> 0]
     ELSE IF hits = {} THEN [panic |-> FALSE, v |-> 0]
     ELSE [panic |-> FALSE,
           v |-> pi.pointerSource[CHOOSE i \in hits : \A j \in hits : i <= j]]

\* A running query: the climber c, the operation, the invocations that are in
\* their loop over owners (innermost last; i is the next owner of the range),
\* the ChildPointer loop, the output, and how it stands: "run", "walk" (in the
\* ChildPointer loop), "returned", "panic".
Machine(c, op) ==
  [ c |-> c, op |-> op, stack |-> <<>>, childPtr |-> 0, walkFor |-> 0, out |-> <<>>,
    expanded |-> <<>>, status |-> "run", result |-> NoError, graph |-> NoGraph,
    frames |-> <<>>, raised |-> <<>> ]

Top(m) == m.stack[Len(m.stack)]

Pop(m) == [m EXCEPT !.stack = SubSeq(@, 1, Len(@) - 1)]

\* Entering "for _, owner := range o" for address.
Push(m, address, depth, level) ==
  [m EXCEPT !.stack = Append(@, [address |-> address, depth |-> depth, level |-> level,
                                  i |-> 1]),
            !.expanded = Append(@, address)]

\* What a caller does with the error of its recursive call: printOwners prints
\* it one level in, printAnchors drops it.  raised keeps the errors that came
\* back from recursive calls.
afterCall(m, e) ==
  LET m1 == [m EXCEPT !.raised = IF Len(@) < MaxOut THEN Append(@, e) ELSE @] IN
  IF e = NoError THEN m
  ELSE IF m.op = "owners" THEN Emit(m1, Line("error", Top(m).level + 1, e.address, 0))
  ELSE m1

\* return e from the innermost invocation (its callers are on the stack), and
\* the owners loop of the innermost invocation from its next owner on: up to
\* the next recursive call, or to the return of the query.
RECURSIVE return(_, _), ownersLoop(_)
return(m, e) ==
  IF m.stack = <<>> THEN [m EXCEPT !.status = "returned", !.result = e]
  ELSE ownersLoop(afterCall(m, e))

ownersLoop(m) ==
  LET o == m.c.owners[Top(m).address] IN
  IF Top(m).i > Len(o) THEN return(Pop(m), NoError)
  ELSE IF ~Addressable(o[Top(m).i])
       THEN ownersLoop([m EXCEPT !.stack[Len(m.stack)].i = @ + 1])
       ELSE [m EXCEPT !.status = "run"]

\* printOwners(address, depth, prefix...) up to its loop over owners; level is
\* the number of "  " in the indent.
printOwners(m, address, depth, level) ==
  IF depth = 0 THEN return(m, NoError)
  ELSE IF address \in m.c.visited.keys THEN return(m, NoError)
  ELSE LET m1 == [m EXCEPT !.c = markVisited(@, address)] IN
       IF address \notin DOMAIN m1.c.memory THEN return(m1, NotFound(address))
       ELSE LET r == m1.c.memory[address] IN
            IF ~Stringer(r) THEN [m1 EXCEPT !.status = "panic"]
            ELSE LET m2 == Emit(m1, Line("record", level, address, r.id)) IN
                 IF address \notin DOMAIN m2.c.owners THEN return(m2, NoError)
                 ELSE ownersLoop(Push(m2, address, depth, level))

\* After the type switch of printAnchors: the loop over owners.
anchorsOwners(m, address) ==
  IF address \notin DOMAIN m.c.owners THEN return(m, NoError)
  ELSE ownersLoop(Push(m, address, 0, 0))

\* printAnchors(address) up to its ChildPointer loop or its loop over owners.
printAnchors(m, address) ==
  IF address \in m.c.visited.keys THEN return(m, Loop(address))
  ELSE LET m1 == [m EXCEPT !.c = markVisited(@, address)] IN
       IF address \notin DOMAIN m1.c.memory THEN return(m1, NotFound(address))
       ELSE LET root == m1.c.memory[address] IN
            CASE root.kind \in {"OtherRoot", "BssSegment", "DataSegment"} ->
                   anchorsOwners(Emit(m1, Line("root", 0, address, root.id)), address)
              [] root.kind = "StackFrame" ->
                   LET m2 == Emit(m1, Line("root", 0, address, root.id)) IN
                   IF root.ChildPointer = 0 THEN anchorsOwners(m2, address)
                   ELSE [m2 EXCEPT !.status = "walk", !.walkFor = address,
                                   !.childPtr = root.ChildPointer]
              [] OTHER -> anchorsOwners(m1, address)

\* One iteration of "for childPtr != 0" in printAnchors: the type assertion
\* childRecord.(*heapdump.StackFrame) comes before the test of found and panics
\* on a missing record (a nil interface) and on any other variant.
anchorsChild(m) ==
  IF m.childPtr \notin DOMAIN m.c.memory \/ m.c.memory[m.childPtr].kind # "StackFrame"
  THEN [m EXCEPT !.status = "panic"]
  ELSE LET child == m.c.memory[m.childPtr]
           m1 == Emit(m, Line("child", 1, m.childPtr, child.id))
       IN IF child.ChildPointer = 0
          THEN anchorsOwners([m1 EXCEPT !.childPtr = 0, !.walkFor = 0], m.walkFor)
          ELSE [m1 EXCEPT !.childPtr = child.ChildPointer]

\* Entering the scan "for dest := address; dest < end; dest++" of an Object
\* node, or fullStack of a StackFrame node.
ImagePush(m, address, spotlight) ==
  [m EXCEPT !.stack = Append(@, [address |-> address, dest |-> address, i |-> 1,
                                  foundOwner |-> FALSE, spotlight |-> spotlight]),
            !.expanded = Append(@, address)]

\* return on (a node) from the innermost addNode, and the scan of the innermost
\* Object node from its next owner on: up to the next recursive call, or to the
\* return of WriteImage, which prints the node count and renders.
RECURSIVE addNodeReturn(_, _), addNodeLoop(_)
addNodeReturn(m, on) ==
  IF m.stack = <<>>
  THEN [Emit(m, Line("rendering", 0, 0, Cardinality(m.c.visited.keys)))
          EXCEPT !.status = "returned", !.result = NoError]
  ELSE LET top == Top(m)
           a == m.c.owners[top.dest][top.i]
           ps == GetPointersSourceAddress(a, top.dest, m.c.params)
           m1 == [m EXCEPT !.graph = CreateEdge(@, on, top.address, top.dest, ps.v),
                           !.stack[Len(m.stack)].i = @ + 1]
       IN IF ps.panic THEN [m EXCEPT !.status = "panic"] ELSE addNodeLoop(m1)

addNodeLoop(m) ==
  LET top == Top(m)
      r == m.c.memory[top.address]
      end == Len(r.Contents) + top.address
      g1 == IF ~top.foundOwner THEN Fill(m.graph, top.address, "gray") ELSE m.graph
      g2 == Spotlight(g1, top.address, top.spotlight)
  IN IF top.dest >= end THEN addNodeReturn(Pop([m EXCEPT !.graph = g2]), top.address)
     ELSE IF top.dest \notin DOMAIN m.c.owners \/ top.i > Len(m.c.owners[top.dest])
     THEN addNodeLoop([m EXCEPT !.stack[Len(m.stack)].dest = @ + 1,
                                !.stack[Len(m.stack)].i = 1])
     ELSE IF ~Owner(m.c.owners[top.dest][top.i])
     THEN addNodeLoop([m EXCEPT !.stack[Len(m.stack)].i = @ + 1])
     ELSE [m EXCEPT !.status = "run", !.stack[Len(m.stack)].foundOwner = TRUE]

\* addNode(graph, address, spotlight) up to the scan of an Object's owners or
\* the loop of fullStack.
addNode(m, address, spotlight) ==
  IF address \notin DOMAIN m.c.memory
  THEN addNodeReturn([m EXCEPT !.graph = Spotlight(SetNode(CreateNode(@, address), address,
                                                           "plain", <<>>),
                                                   address, spotlight)], address)
  ELSE IF address \in m.c.visited.keys THEN addNodeReturn(m, address)
  ELSE LET record == m.c.memory[address]
           m1 == [m EXCEPT !.c = markVisited(@, address), !.graph = CreateNode(@, address)]
           shape == CASE record.kind = "BssSegment" -> "doubleoctagon"
                      [] record.kind = "DataSegment" -> "tripleoctagon"
                      [] OTHER -> "house"
       IN CASE record.kind = "Object" ->
                 addNodeLoop(ImagePush(
                   [m1 EXCEPT !.graph = SetFinalizer(SetNode(@, address, "ellipse", <<>>),
                                                     address, address \in DOMAIN m.c.finalizers)],
                   address, spotlight))
            [] record.kind = "StackFrame" ->
                 [ImagePush(m1, address, spotlight)
                    EXCEPT !.status = "stack", !.childPtr = address, !.frames = <<>>]
            [] OTHER ->
                 addNodeReturn([m1 EXCEPT !.graph = Spotlight(SetNode(@, address, shape, <<>>),
                                                              address, spotlight)], address)

\* One iteration of "for framePtr != 0" in fullStack: the type assertion
\* frameRecord.(*heapdump.StackFrame) comes before the test of found.  After the
\* last one addNode labels the node and returns it.
fullStack(m) ==
  IF m.childPtr \notin DOMAIN m.c.memory \/ m.c.memory[m.childPtr].kind # "StackFrame"
  THEN [m EXCEPT !.status = "panic"]
  ELSE LET frame == m.c.memory[m.childPtr]
           top == Top(m)
           m1 == [m EXCEPT !.frames = IF Len(@) < MaxOut THEN Append(@, frame.id) ELSE @,
                           !.childPtr = frame.ChildPointer]
       IN IF frame.ChildPointer # 0 THEN m1
          ELSE addNodeReturn(
                 Pop([m1 EXCEPT !.graph = Spotlight(SetNode(@, top.address, "box", m1.frames),
                                                    top.address, top.spotlight)]),
                 top.address)

\* A dump whose pointer lines show where the fields lie in memory.
hexdumpAbsolute(m, address) ==
  IF address \notin DOMAIN m.c.memory
  THEN [m EXCEPT !.status = "returned", !.result = NotFound(address)]
  ELSE LET r == m.c.memory[address] IN
       IF ~Owner(r)
       THEN [m EXCEPT !.status = "returned",
                      !.result = [what |-> "nocontents", address |-> address]]
       ELSE [m EXCEPT !.status = "returned",
                      !.out = <<Line("hexdump", 0, address, r.id)>>
                                \o [i \in 1..Len(r.Fields) |->
                                      Line("pointer", 0, address + r.Fields[i], 0)]]

\* Hexdump(address): hex.Dump of the contents, then a line for each field.
hexdump(m, address) ==
  IF address \notin DOMAIN m.c.memory
  THEN [m EXCEPT !.status = "returned", !.result = NotFound(address)]
  ELSE LET r == m.c.memory[address] IN
       IF ~Owner(r)
       THEN [m EXCEPT !.status = "returned",
                      !.result = [what |-> "nocontents", address |-> address]]
       ELSE [m EXCEPT !.status = "returned",
                      !.out = <<Line("hexdump", 0, address, r.id)>>
                                \o [i \in 1..Len(r.Fields) |-> Line("pointer", 0, r.Fields[i], 0)]]

\* The recursive call the query stands at.
recurse(m) ==
  LET top == Top(m)
      m1 == [m EXCEPT !.stack[Len(m.stack)].i = @ + 1]
  IN CASE m.op = "owners" ->
            printOwners(m1, GetAddress(m.c.owners[top.address][top.i]), top.depth - 1,
                        top.level + 1)
       [] m.op = "anchors" -> printAnchors(m1, GetAddress(m.c.owners[top.address][top.i]))
       [] m.op = "image" -> addNode(m, GetAddress(m.c.owners[top.dest][top.i]), FALSE)

\* One step of a running query.
step(m) ==
  CASE m.status = "walk" -> anchorsChild(m)
    [] m.status = "stack" -> fullStack(m)
    [] OTHER -> recurse(m)

\* A depth that is passed on as it is.
PrintOwnersDepthSame(depth) == depth

\* main: "err := climber.PrintAnchors(conf.Address); if err != nil { panic(err) }",
\* the same for PrintOwners and Hexdump; what WriteSVG returns is dropped.
mainPanics(op, e) == op \in {"owners", "anchors", "hexdump"} /\ e # NoError

\* PrintOwners(address, depth): a fresh visited map, depth + 1 levels for a
\* positive depth.
PrintOwnersDepth(depth) == IF depth > 0 THEN depth + 1 ELSE depth

(* --------------------------- printing records ------------------------- *)

\* regexp.Compile and re.MatchString for the patterns and names of the model:
\* "(" does not compile, "a" and "b" match the names that hold the letter, "^$"
\* the empty name, "" every name.
Compile(pattern) == IF pattern = "(" THEN "BadRegex" ELSE "nil"

MatchString(pattern, name) ==
  CASE pattern = "a" -> name \in {"a", "ab"}
    [] pattern = "b" -> name \in {"ab"}
    [] pattern = "^$" -> name = ""
    [] OTHER -> TRUE

\* A filter that lets every Object pass.
skipsNoObject(record, pattern, oids) ==
  pattern # "" /\ record.kind # "Eof" /\ record.kind # "Object"

\* "if len(search) > 0 && !isEof && (!isObject || !re.MatchString(obj.Name))
\* { continue }".
skips(record, pattern, oids) ==
  /\ pattern # ""
  /\ record.kind # "Eof"
  /\ (record.kind # "Object" \/ ~MatchString(pattern, NameOf(record, oids)))

\* The line of a record: s.String() of a Stringer (that of an Object starts
\* with GetName()), else the type.
RecordLine(record, oids) ==
  [ t |-> "record", id |-> record.id,
    text |-> IF ~Stringer(record) THEN "%T"
             ELSE IF NameOf(record, oids) # "" THEN NameOf(record, oids)
             ELSE record.kind ]

\* The lines "  Pointer[i]@source = target" of the pointers that are not 0.
RECURSIVE PointerLines(_, _, _)
PointerLines(record, pointers, i) ==
  IF i > Len(pointers) THEN <<>>
  ELSE (IF pointers[i] # 0
        THEN <<[t |-> "pointer", i |-> i - 1, at |-> GetAddress(record) + record.Fields[i],
                to |-> pointers[i]]>>
        ELSE <<>>) \o PointerLines(record, pointers, i + 1)

\* PrintRecords up to its loop: regexp.Compile, then ReadHeader.
printHeader(s, b, pattern) ==
  IF Compile(pattern) # "nil" THEN [b EXCEPT !.pc = "failed", !.err = Compile(pattern)]
  ELSE LET h == ReadHeader(s, b.pos) IN
       [b EXCEPT !.pos = h.pos, !.err = h.err,
                 !.pc = IF h.err # "nil" THEN "failed" ELSE "printing"]

\* The rest of an iteration for a record that is not skipped: its line, then
\* the lines of its pointers if it is an Owner; GetPointers panics before the
\* first of them is printed.  After the EndOfFile record the loop ends.
printLines(b, record, oids) ==
  LET pi == GetPointerInfo(record, b.params)
      b1 == [b EXCEPT !.out = Append(@, RecordLine(record, oids))]
  IN IF ~Owner(record) THEN [b1 EXCEPT !.pc = IF record.kind = "Eof" THEN "done" ELSE @]
     ELSE IF pi.panic THEN [b1 EXCEPT !.pc = "panicked"]
     ELSE [b1 EXCEPT !.out = @ \o PointerLines(record, pi.pointerTarget, 1)]

\* An iteration from the return of ReadRecord on: the error is returned, a
\* DumpParams record becomes params, a record the search skips prints nothing.
printDecoded(b, rr, pattern, oids) ==
  LET record == [rr.rec EXCEPT !.id = Len(b.read) + 1] IN
  IF rr.err # "nil" THEN [b EXCEPT !.pos = rr.pos, !.err = rr.err, !.pc = "failed"]
  ELSE IF skips(record, pattern, oids)
  THEN [b EXCEPT !.pos = rr.pos, !.read = Append(@, record),
                 !.params = IF record.kind = "DumpParams" THEN record ELSE @]
  ELSE printLines([b EXCEPT !.pos = rr.pos, !.read = Append(@, record),
                            !.params = IF record.kind = "DumpParams" THEN record ELSE @],
                  record, oids)

\* One iteration of the loop of PrintRecords.
printRecord(s, b, pattern, oids) == printDecoded(b, ReadRecord(s, b.pos), pattern, oids)

(* ------------------------------- state -------------------------------- *)

VARIABLES
  stream,      \* the dump: what the bufio.Reader will deliver
  pos,         \* the reader's position in it
  pc,          \* where the program is
  err,         \* the error build returned
  params,      \* TreeClimber.params
  memory,      \* TreeClimber.memory
  owners,      \* TreeClimber.owners
  finalizers,  \* TreeClimber.finalizers
  visited,     \* TreeClimber.visited
  read,        \* history: the records ReadRecord has returned, in order
  readFailed,  \* history: a primitive read of the decoder has failed
  call,        \* the query running or last run: operation, address, depth
  stack,       \* the invocations of the running query that are in their owners loop
  childPtr,    \* the ChildPointer loop of printAnchors: the pointer it is at
  walkFor,     \* ... and the address of the frame whose chain it walks
  out,         \* what the query has printed
  graph,       \* the graph WriteImage is building
  frames,      \* the frames fullStack has collected
  expanded,    \* history: the addresses whose owners loop the query entered
  result,      \* the error the query returned
  raised,      \* history: the errors its recursive calls have returned
  queries,     \* history: how many queries have been called, up to MaxQueries
  oidFile,     \* the lines of the OID file
  oidPos,      \* the line ReadOids is at
  oidMap,      \* the package variable oidMap
  oidErr,      \* the error ReadOids returned
  search       \* the pattern PrintRecords is called with

cvars == <<params, memory, owners, finalizers>>
bvars == <<stream, pos, err, read, readFailed>>
qvars == <<visited, call, stack, childPtr, walkFor, out, graph, frames, expanded, result,
           raised, queries>>
nvars == <<oidFile, oidPos, oidMap, oidErr, search>>
vars == <<stream, pos, pc, err, params, memory, owners, finalizers, read, readFailed,
          visited, call, stack, childPtr, walkFor, out, graph, frames, expanded, result,
          raised, queries, oidFile, oidPos, oidMap, oidErr, search>>

Climber == [params |-> params, memory |-> memory, owners |-> owners,
            finalizers |-> finalizers]

\* No query has been called: visited is the nil map.
NoQuery ==
  /\ visited = NilVisited
  /\ call = NoCall
  /\ stack = <<>>
  /\ childPtr = 0
  /\ walkFor = 0
  /\ out = <<>>
  /\ graph = NoGraph
  /\ frames = <<>>
  /\ expanded = <<>>
  /\ result = NoError
  /\ raised = <<>>
  /\ queries = 0

\* No OID file was given: init() has made the empty oidMap.
NoOids ==
  /\ oidFile = <<>>
  /\ oidPos = 1
  /\ oidMap = EmptyMap
  /\ oidErr = "nil"
  /\ search = ""

\* NewTreeClimber(reader) is about to call build.
Init ==
  /\ stream \in Streams
  /\ pos = 1
  /\ pc = "start"
  /\ err = "nil"
  /\ params = NewClimber.params
  /\ memory = NewClimber.memory
  /\ owners = NewClimber.owners
  /\ finalizers = NewClimber.finalizers
  /\ read = <<>>
  /\ readFailed = FALSE
  /\ NoQuery
  /\ NoOids

\* The state of build as one value.
BuildState ==
  [ pc |-> pc, pos |-> pos, err |-> err, c |-> Climber, read |-> read,
    readFailed |-> readFailed ]

SetBuildState(b) ==
  /\ pc' = b.pc
  /\ pos' = b.pos
  /\ err' = b.err
  /\ params' = b.c.params
  /\ memory' = b.c.memory
  /\ owners' = b.c.owners
  /\ finalizers' = b.c.finalizers
  /\ read' = b.read
  /\ readFailed' = b.readFailed

\* build, up to the read loop: ReadHeader, then the three maps.
BuildHeader ==
  /\ pc = "start"
  /\ SetBuildState(buildHeader(stream, BuildState))
  /\ UNCHANGED <<stream, qvars, nvars>>

\* One iteration of the read loop in which ReadRecord returns an error.
BuildReadError ==
  /\ pc = "reading"
  /\ \E b \in {readloop(stream, BuildState)} : b.pc = "failed" /\ SetBuildState(b)
  /\ UNCHANGED <<stream, qvars, nvars>>

\* One iteration of the read loop that decodes an EndOfFile record.
BuildEof ==
  /\ pc = "reading"
  /\ \E b \in {readloop(stream, BuildState)} : b.pc = "done" /\ SetBuildState(b)
  /\ UNCHANGED <<stream, qvars, nvars>>

\* One iteration of the read loop that decodes any other record.
BuildRecord ==
  /\ pc = "reading"
  /\ \E b \in {readloop(stream, BuildState)} :
       b.pc \in {"reading", "panicked"} /\ SetBuildState(b)
  /\ UNCHANGED <<stream, qvars, nvars>>

Next == BuildHeader \/ BuildReadError \/ BuildEof \/ BuildRecord

Spec == Init /\ [][Next]_vars

(* --------------------- the queries of a built index ------------------- *)

\* Addresses a query is called with: 1..4 are those of the generated records.
MaxAddr == 5

\* Depths PrintOwners is called with: -1 (unbounded) up to MaxDepth.
MaxDepth == 2

\* A little-endian pointer of DumpParams.PointerSize = 2.
Ptr(t) == <<t, 0>>

\* The dumps the queries run on: parameters, then at most one record for each
\* of the addresses 1..4 in this order, then EndOfFile.  The owner edges they
\* make include chains, two owners of one address, an owner reached along two
\* paths, cycles, pointers to an address without a record and nil pointers; the
\* records include every root variant, stack frames whose ChildPointer is 0,
\* names a frame, lies on a cycle of frames, names a record that is no frame
\* and names no record, a record without a String method, and an Object whose
\* contents are empty.
First ==
  { Encode(OwnerRec("Object", 1, Ptr(5), <<0>>)),
    Encode(OwnerRec("Object", 1, Ptr(4), <<0>>)),
    Encode(OwnerRec("Object", 1, <<>>, <<>>)),
    Encode(Plain("OtherRoot", 1)),
    Encode(Plain("DeferRecord", 1)) }

Second ==
  { <<>>,
    Encode(OwnerRec("Object", 2, Ptr(1), <<0>>)),
    Encode(Frame(2, 0, Ptr(1), <<0>>)),
    Encode(Frame(2, 3, Ptr(1), <<0>>)),
    Encode(Frame(2, 4, Ptr(1), <<0>>)),
    Encode(Frame(2, 5, Ptr(1), <<0>>)) }

Third ==
  { <<>>,
    Encode(OwnerRec("Object", 3, Ptr(1) \o Ptr(2), <<0, 2>>)),
    Encode(OwnerRec("BssSegment", 3, Ptr(1) \o Ptr(2), <<0, 2>>)),
    Encode(OwnerRec("Object", 3, Ptr(0) \o Ptr(2), <<0, 2>>)) }

Fourth ==
  { <<>>,
    Encode(OwnerRec("Object", 4, Ptr(3), <<0>>)),
    Encode(OwnerRec("DataSegment", 4, Ptr(3), <<0>>)),
    Encode(Frame(4, 2, Ptr(3), <<0>>)) }

QueryStreams ==
  { <<Raw(Header)>> \o Encode(DumpParams(FALSE, 2)) \o r1 \o r2 \o r3 \o r4
      \o Encode(Blank("Eof")) : r1 \in First, r2 \in Second, r3 \in Third, r4 \in Fourth }

\* The dumps among them that PrintAnchors is followed on to its end.
AnchorStreams ==
  { <<Raw(Header)>> \o Encode(DumpParams(FALSE, 2)) \o r1 \o r2 \o r3 \o r4
      \o Encode(Blank("Eof")) :
      r1 \in {Encode(OwnerRec("Object", 1, Ptr(4), <<0>>)), Encode(Plain("OtherRoot", 1))},
      r2 \in Second,
      r3 \in {<<>>, Encode(OwnerRec("BssSegment", 3, Ptr(1) \o Ptr(2), <<0, 2>>))},
      r4 \in {<<>>, Encode(OwnerRec("DataSegment", 4, Ptr(3), <<0>>)),
              Encode(Frame(4, 2, Ptr(3), <<0>>))} }

\* NewTreeClimber(reader) has returned a climber and no error, for a dump among
\* streams.
Built(streams) ==
  /\ stream \in streams
  /\ \E b \in {build(stream)} :
       /\ b.pc = "done"
       /\ pc = b.pc
       /\ pos = b.pos
       /\ err = b.err
       /\ params = b.c.params
       /\ memory = b.c.memory
       /\ owners = b.c.owners
       /\ finalizers = b.c.finalizers
       /\ read = b.read
       /\ readFailed = b.readFailed
  /\ NoQuery
  /\ NoOids

InitQ == Built(QueryStreams)

\* Queries the history counts; a later one counts as the last.
MaxQueries == 2

\* The running query as one value.
Running ==
  [ c |-> [params |-> params, memory |-> memory, owners |-> owners,
           finalizers |-> finalizers, visited |-> visited],
    op |-> call.op, stack |-> stack, childPtr |-> childPtr, walkFor |-> walkFor,
    out |-> out, expanded |-> expanded,
    status |-> IF pc \in {"walk", "stack"} THEN pc ELSE "run",
    result |-> result, graph |-> graph, frames |-> frames, raised |-> raised ]

\* A query called on the climber: its machine with a fresh visited map.
Called(op) == Machine([Running.c EXCEPT !.visited = makeVisited], op)

\* A query that leaves its visited-set behind.
deferredNot(m) == m

\* defer func() { c.visited = nil }(): runs when the query returns or panics.
deferred(m) ==
  IF m.status \in {"returned", "panic"} THEN [m EXCEPT !.c.visited = NilVisited] ELSE m

SetRunning(m0) ==
  \E m \in {deferred(m0)} :
    /\ pc' = CASE m.status = "run" -> m.op
               [] m.status \in {"walk", "stack"} -> m.status
               [] m.status = "returned" -> "done"
               [] m.status = "panic" -> "panicked"
    /\ params' = m.c.params
    /\ memory' = m.c.memory
    /\ owners' = m.c.owners
    /\ finalizers' = m.c.finalizers
    /\ visited' = m.c.visited
    /\ stack' = m.stack
    /\ childPtr' = m.childPtr
    /\ walkFor' = m.walkFor
    /\ out' = m.out
    /\ graph' = m.graph
    /\ frames' = m.frames
    /\ expanded' = m.expanded
    /\ result' = m.result
    /\ raised' = m.raised

\* PrintOwners(address, depth), to the first recursive call or to its return.
PrintOwners(address, depth) ==
  /\ pc = "done"
  /\ call' = [op |-> "owners", address |-> address, depth |-> depth]
  /\ queries' = IF queries < MaxQueries THEN queries + 1 ELSE queries
  /\ SetRunning(printOwners(Called("owners"), address, PrintOwnersDepth(depth), 0))
  /\ UNCHANGED <<bvars, nvars>>

\* The next recursive printOwners call, to the one after it or to the return.
PrintOwnersStep ==
  /\ pc = "owners"
  /\ SetRunning(step(Running))
  /\ UNCHANGED <<bvars, call, queries, nvars>>

\* PrintAnchors(address), to the ChildPointer loop, the first recursive call or
\* its return.
PrintAnchors(address) ==
  /\ pc = "done"
  /\ call' = [op |-> "anchors", address |-> address, depth |-> 0]
  /\ queries' = IF queries < MaxQueries THEN queries + 1 ELSE queries
  /\ SetRunning(printAnchors(Called("anchors"), address))
  /\ UNCHANGED <<bvars, nvars>>

\* The next recursive printAnchors call.
PrintAnchorsStep ==
  /\ pc = "anchors"
  /\ SetRunning(step(Running))
  /\ UNCHANGED <<bvars, call, queries, nvars>>

\* One iteration of the ChildPointer loop of printAnchors.
PrintAnchorsChild ==
  /\ pc = "walk"
  /\ SetRunning(step(Running))
  /\ UNCHANGED <<bvars, call, queries, nvars>>

\* Hexdump(address): it has no loop that calls back into the climber.
Hexdump(address) ==
  /\ pc = "done"
  /\ call' = [op |-> "hexdump", address |-> address, depth |-> 0]
  /\ queries' = IF queries < MaxQueries THEN queries + 1 ELSE queries
  /\ SetRunning(hexdump(Machine(Running.c, "hexdump"), address))
  /\ UNCHANGED <<bvars, nvars>>

\* WriteImage(address, w, format), to the first recursive addNode call, to the
\* loop of fullStack, or to its return.
WriteImage(address) ==
  /\ pc = "done"
  /\ call' = [op |-> "image", address |-> address, depth |-> 0]
  /\ queries' = IF queries < MaxQueries THEN queries + 1 ELSE queries
  /\ SetRunning(addNode(Called("image"), address, TRUE))
  /\ UNCHANGED <<bvars, nvars>>

\* The next recursive addNode call.
AddNodeStep ==
  /\ pc = "image"
  /\ SetRunning(step(Running))
  /\ UNCHANGED <<bvars, call, queries, nvars>>

\* One iteration of "for framePtr != 0" in fullStack.
FullStackStep ==
  /\ pc = "stack"
  /\ SetRunning(step(Running))
  /\ UNCHANGED <<bvars, call, queries, nvars>>

NextQ ==
  \/ \E address \in 1..MaxAddr, depth \in -1..MaxDepth : PrintOwners(address, depth)
  \/ PrintOwnersStep
  \/ \E address \in 1..MaxAddr : PrintAnchors(address)
  \/ PrintAnchorsStep
  \/ PrintAnchorsChild
  \/ \E address \in 1..MaxAddr : Hexdump(address)
  \/ \E address \in 1..MaxAddr : WriteImage(address)
  \/ AddNodeStep
  \/ FullStackStep

SpecQ == InitQ /\ [][NextQ]_vars

\* PrintAnchors calls only, and the program runs on while it has a step to take.
NextAnchors ==
  \/ \E address \in 1..MaxAddr : PrintAnchors(address)
  \/ PrintAnchorsStep
  \/ PrintAnchorsChild

FairSpecAnchors == Built(AnchorStreams) /\ [][NextAnchors]_vars /\ WF_vars(NextAnchors)

\* Dumps whose owners are stack frames and segments: a graph of theirs has no
\* Object node, so that addNode recurses nowhere and loops in fullStack only.
FrameStreams ==
  { <<Raw(Header)>> \o Encode(DumpParams(FALSE, 2)) \o Encode(Plain("OtherRoot", 1)) \o r2
      \o r3 \o r4 \o Encode(Blank("Eof")) :
      r2 \in Second \ {Encode(OwnerRec("Object", 2, Ptr(1), <<0>>))},
      r3 \in {<<>>, Encode(OwnerRec("BssSegment", 3, Ptr(1) \o Ptr(2), <<0, 2>>))},
      r4 \in {<<>>, Encode(OwnerRec("DataSegment", 4, Ptr(3), <<0>>)),
              Encode(Frame(4, 2, Ptr(3), <<0>>)), Encode(Frame(4, 0, Ptr(3), <<0>>))} }

\* WriteImage calls only, and fullStack runs on while it has an iteration to
\* make.
NextImage ==
  \/ \E address \in 1..MaxAddr : WriteImage(address)
  \/ FullStackStep

FairSpecImage == Built(FrameStreams) /\ [][NextImage]_vars /\ WF_vars(FullStackStep)

(* --------------------------- PrintRecords ----------------------------- *)

\* The OID file that was loaded: two class names.
LoadedOids == MapPut(MapPut(EmptyMap, 1, "a"), 2, "ab")

\* Contents that start with the 8 bytes of an OID.
Oid(n, rest) == <<n, 0, 0, 0, 0, 0, 0, 0>> \o rest

\* Records of the dumps that are printed: Objects named "a" and "ab" (with a
\* nil pointer and pointers that are not nil), Objects without a name (short
\* contents, contents of just 8 bytes, an OID the map does not have), an owner
\* that is no Object, records that own nothing, one without a String method, and
\* parameters.
PrintPool ==
  { Encode(OwnerRec("Object", 1, Oid(1, <<0, 3, 0>>), <<9>>)),
    Encode(OwnerRec("Object", 2, Oid(2, <<0, 0, 0, 1, 0>>), <<9, 11>>)),
    Encode(OwnerRec("Object", 3, <<1, 0>>, <<0>>)),
    Encode(OwnerRec("Object", 4, Oid(1, <<>>), <<>>)),
    Encode(OwnerRec("Object", 5, Oid(3, <<0>>), <<>>)),
    Encode(Frame(4, 0, <<3, 0>>, <<0>>)),
    Encode(Plain("OtherRoot", 1)),
    Encode(Plain("DeferRecord", 1)),
    Encode(DumpParams(TRUE, 2)) }

\* The dumps: with and without parameters at the start, at most two records,
\* then an EndOfFile record (and a record after it) or the end of the input.
PrintStreams ==
  { <<Raw(Header)>> \o d \o Concat(b) \o e :
      d \in {<<>>, Encode(DumpParams(FALSE, 2))},
      b \in UNION {[1..n -> PrintPool] : n \in 0..2},
      e \in {<<>>, Encode(Blank("Eof")),
             Encode(Blank("Eof")) \o Encode(OwnerRec("Object", 1, Oid(1, <<0, 3, 0>>), <<9>>))} }

Patterns == {"", "a", "b", "^$", "("}

\* main has opened the dump and is about to call PrintRecords(reader, search).
InitPrint ==
  /\ stream \in PrintStreams
  /\ search \in Patterns
  /\ oidMap = LoadedOids
  /\ oidFile = <<>>
  /\ oidPos = 1
  /\ oidErr = "nil"
  /\ pos = 1
  /\ pc = "start"
  /\ err = "nil"
  /\ params = Nil
  /\ memory = NewClimber.memory
  /\ owners = NewClimber.owners
  /\ finalizers = NewClimber.finalizers
  /\ read = <<>>
  /\ readFailed = FALSE
  /\ NoQuery

\* The state of PrintRecords as one value; params is its local variable.
PrintState == [pc |-> pc, pos |-> pos, err |-> err, params |-> params, read |-> read, out |-> out]

SetPrintState(b) ==
  /\ pc' = b.pc
  /\ pos' = b.pos
  /\ err' = b.err
  /\ params' = b.params
  /\ read' = b.read
  /\ out' = b.out
  /\ UNCHANGED <<stream, nvars, memory, owners, finalizers, readFailed, visited, call, stack,
                 childPtr, walkFor, graph, frames, expanded, result, raised, queries>>

\* regexp.Compile and ReadHeader.
PrintHeader ==
  /\ pc = "start"
  /\ SetPrintState(printHeader(stream, PrintState, search))

\* An iteration of the loop that reads a record and goes on.
PrintRecord ==
  /\ pc = "printing"
  /\ \E b \in {printRecord(stream, PrintState, search, oidMap)} :
       b.pc = "printing" /\ SetPrintState(b)

\* The iteration that prints the EndOfFile record, and return nil.
PrintEof ==
  /\ pc = "printing"
  /\ \E b \in {printRecord(stream, PrintState, search, oidMap)} :
       b.pc = "done" /\ SetPrintState(b)

\* An iteration in which ReadRecord returns an error or GetPointers panics.
PrintFails ==
  /\ pc = "printing"
  /\ \E b \in {printRecord(stream, PrintState, search, oidMap)} :
       b.pc \in {"failed", "panicked"} /\ SetPrintState(b)

NextPrint == PrintHeader \/ PrintRecord \/ PrintEof \/ PrintFails

SpecPrint == InitPrint /\ [][NextPrint]_vars

(* ------------------------- reading the OID file ----------------------- *)

MaxLines == 3

\* Lines of an OID file: an OID and a name (the OID decimal or hexadecimal),
\* the OID 0, an empty line, a line that starts with a word, a line of an OID
\* alone, a line of three tokens.
OidLines ==
  { <<Num(1, "1"), Word("a")>>,
    <<Num(2, "0x2"), Word("b")>>,
    <<Num(0, "0"), Word("z")>>,
    <<>>,
    <<Word("oid"), Word("name")>>,
    <<Num(3, "3")>>,
    <<Num(4, "4"), Word("c"), Word("d")>> }

RECURSIVE Files(_)
Files(n) ==
  IF n = 0 THEN {<<>>}
  ELSE Files(n - 1) \cup {Append(f, l) : f \in {g \in Files(n - 1) : Len(g) = n - 1}, l \in OidLines}

\* main has opened the OID file and is about to call ReadOids.
InitOids ==
  /\ oidFile \in Files(MaxLines)
  /\ oidPos = 1
  /\ oidMap = EmptyMap
  /\ oidErr = "nil"
  /\ search = ""
  /\ pc = "oids"
  /\ stream = <<>>
  /\ pos = 1
  /\ err = "nil"
  /\ params = NewClimber.params
  /\ memory = NewClimber.memory
  /\ owners = NewClimber.owners
  /\ finalizers = NewClimber.finalizers
  /\ read = <<>>
  /\ readFailed = FALSE
  /\ NoQuery

OidState == [pc |-> pc, pos |-> oidPos, oidMap |-> oidMap, err |-> oidErr]

SetOidState(o) ==
  /\ pc' = o.pc
  /\ oidPos' = o.pos
  /\ oidMap' = o.oidMap
  /\ oidErr' = o.err
  /\ UNCHANGED <<oidFile, search, stream, pos, err, cvars, read, readFailed, qvars>>

\* An iteration of ReadOids in which Fscanln returns no error.
ReadOidsLine ==
  /\ pc = "oids"
  /\ \E o \in {readOids(oidFile, OidState)} : o.pc = "oids" /\ SetOidState(o)

\* "if err != nil { return err }".
ReadOidsError ==
  /\ pc = "oids"
  /\ \E o \in {readOids(oidFile, OidState)} : o.pc = "failed" /\ SetOidState(o)

\* "if err == io.EOF { break }", and return nil.
ReadOidsEof ==
  /\ pc = "oids"
  /\ \E o \in {readOids(oidFile, OidState)} : o.pc = "done" /\ SetOidState(o)

NextOids == ReadOidsLine \/ ReadOidsError \/ ReadOidsEof

SpecOids == InitOids /\ [][NextOids]_vars

(* ------------------------ properties of build ------------------------- *)

\* The DumpParams in force when the i-th record was read: the last DumpParams
\* record before it, nil when there is none.
ParamsAt(i) ==
  LET before == {j \in 1..(i - 1) : read[j].kind = "DumpParams"} IN
  IF before = {} THEN Nil ELSE read[CHOOSE j \in before : \A k \in before : k <= j]

\* C1: after build returns without error, every Owner record read is in
\* owners[t] for every non-zero pointer value t decoded at one of its field
\* offsets.
C1_OwnersHoldEveryPointer ==
  pc = "done" =>
    \A i \in 1..Len(read) :
      Owner(read[i]) =>
        \A k \in 1..Len(read[i].Fields) :
          LET t == PointerTarget(read[i].Contents, read[i].Fields[k], ParamsAt(i)) IN
          (~t.panic /\ t.v # 0) =>
            (t.v \in DOMAIN owners /\ read[i] \in Range(owners[t.v]))

\* A successful build in which two owner records point at the same address.
C1_Witness ==
  /\ pc = "done"
  /\ \E t \in DOMAIN owners : \E i, j \in 1..Len(owners[t]) : owners[t][i] # owners[t][j]

\* C8: a failure of any primitive read of the decoder, the read of a field
\* offset included, ends build with an error at once: after it build does not
\* go on to the next record and does not return success.
C8_DecodeFailureAborts == readFailed => pc \notin {"reading", "done"}

\* C9: an EndOfFile record is the last record decoded and ends build with
\* success, with the reader left right behind it; build succeeds in no other way.
C9_StopsAtFirstEof ==
  /\ \A i \in 1..Len(read) : read[i].kind = "Eof" => (i = Len(read) /\ pc = "done")
  /\ pc = "done" =>
       /\ Len(read) > 0
       /\ read[Len(read)].kind = "Eof"
       /\ stream[pos - 1] = UV(TagOf("Eof"))

\* A successful build of a dump that has a record after its EndOfFile.
C9_Witness == pc = "done" /\ pos <= Len(stream) /\ Len(read) > 1

AddressableRead == {i \in 1..Len(read) : Addressable(read[i])}

\* C10: after a successful build the keys of memory are the addresses of the
\* addressable records read, and memory[x] is the last of them with address x.
C10_MemoryLastWins ==
  pc = "done" =>
    /\ DOMAIN memory = {GetAddress(read[i]) : i \in AddressableRead}
    /\ \A x \in DOMAIN memory :
         LET at == {i \in AddressableRead : GetAddress(read[i]) = x} IN
         memory[x] = read[CHOOSE i \in at : \A j \in at : j <= i]

\* A successful build of a dump with two addressable records at one address.
C10_Witness ==
  /\ pc = "done"
  /\ \E i, j \in AddressableRead : i < j /\ GetAddress(read[i]) = GetAddress(read[j])

\* C11: an OtherRoot record is never a value of memory: reading one neither
\* inserts it nor replaces the record stored at the address it names.
C11_OtherRootNotInMemory == \A x \in DOMAIN memory : memory[x].kind # "OtherRoot"

\* C12: an Owner record read while no DumpParams record has been read makes
\* build fail at that record, with nothing added to owners.
C12_OwnerBeforeParamsFails ==
  [][ (pc = "reading" /\ params = Nil /\ Len(read') > Len(read)
         /\ Owner(read'[Len(read')]))
        => (pc' = "panicked" /\ owners' = owners) ]_vars

\* build has stopped at an Owner record with a pointer field that came before
\* any DumpParams.
C12_Witness ==
  /\ pc = "panicked"
  /\ params = Nil
  /\ Len(read) > 0
  /\ Owner(read[Len(read)])
  /\ read[Len(read)].Fields # <<>>

\* C13: build never returns success on a dump with a DumpParams record whose
\* PointerSize is not 2, 4 or 8.
C13_UnsupportedPointerSizeFatal ==
  pc = "done" =>
    \A i \in 1..Len(read) :
      read[i].kind = "DumpParams" => read[i].PointerSize \in {2, 4, 8}

(* ---------------------- properties of the queries --------------------- *)

\* The printed lines of one sort, and the addresses they show.
Lines(t) == {i \in 1..Len(out) : out[i].t = t}

PrintedAddresses(t) == {out[i].address : i \in Lines(t)}

PrintedIds(t) == {out[i].id : i \in Lines(t)}

\* No two lines of sort t show the same address.
PrintedOnce(t) == \A i, j \in Lines(t) : out[i].address = out[j].address => i = j

NoRepeat(s) == \A i, j \in 1..Len(s) : s[i] = s[j] => i = j

\* A query of this operation has returned.
Returned(op) == pc = "done" /\ call.op = op

\* The addresses of the owners of the record at x.
OwnerAddresses(x) ==
  IF x \in DOMAIN owners /\ x \in DOMAIN memory
  THEN {GetAddress(owners[x][i]) : i \in 1..Len(owners[x])}
  ELSE {}

\* The addresses within k owner hops of the addresses S.
RECURSIVE Within(_, _)
Within(S, k) ==
  IF k = 0 THEN S ELSE Within(S \cup UNION {OwnerAddresses(x) : x \in S}, k - 1)

\* The addresses reachable from a along owner edges (no more addresses than
\* memory has keys are added on the way, but for a and one missing address).
Reachable(a) == Within({a}, Cardinality(DOMAIN memory) + 1)

RootKinds == {"OtherRoot", "StackFrame", "BssSegment", "DataSegment"}

RECURSIVE Sum(_)
Sum(s) == IF s = <<>> THEN 0 ELSE Head(s) + Sum(Tail(s))

RECURSIVE SumOver(_, _)
SumOver(S, f) ==
  IF S = {} THEN 0 ELSE LET x == CHOOSE y \in S : TRUE IN f[x] + SumOver(S \ {x}, f)

\* What is left of a running PrintOwners: the owners the loops on the stack
\* have yet to take, and the owners of the addresses without a mark.
Measure ==
  Sum([k \in 1..Len(stack) |-> Len(owners[stack[k].address]) - stack[k].i + 1])
    + SumOver(DOMAIN owners \ visited.keys, [x \in DOMAIN owners |-> Len(owners[x])])

\* C2: PrintOwners(a, d) terminates for every a and d on every index, owner
\* cycles included: every step of a running call either returns or lowers a
\* measure that is never negative; and within one call no address is printed
\* twice and no address has its owners enumerated twice.
C2_PrintOwnersTerminates ==
  [][ /\ (pc = "owners" /\ pc' = "owners") => Measure' < Measure /\ Measure' >= 0
      /\ call'.op = "owners" => PrintedOnce("record")' /\ NoRepeat(expanded)' ]_vars

\* An unbounded PrintOwners has returned from an index with an owner cycle
\* through its start address, after three or more expansions.
C2_Witness ==
  /\ Returned("owners")
  /\ call.depth < 0
  /\ Len(expanded) >= 3
  /\ \E x \in Range(expanded) : call.address \in OwnerAddresses(x)

\* C3: PrintAnchors(a) terminates for every a and every index, whatever the
\* owner edges and the ChildPointer values are.
C3_PrintAnchorsTerminates ==
  (call.op = "anchors" /\ pc \in {"anchors", "walk"}) ~> (pc \in {"done", "panicked"})

\* C4: for a start address a in memory, the root lines PrintAnchors(a) prints
\* are exactly the root-variant records reachable from a along owner edges,
\* each once.
C4_AnchorsAreTheReachableRoots ==
  (call.op = "anchors" /\ pc \in {"done", "panicked"} /\ call.address \in DOMAIN memory) =>
    /\ PrintedIds("root") =
         {memory[x].id : x \in {y \in Reachable(call.address) \cap DOMAIN memory :
                                   memory[y].kind \in RootKinds}}
    /\ PrintedOnce("root")

\* C5: PrintOwners(a, d) with d > 0 prints the record at a at level 0 and
\* owners at levels 1..d only, the direct owners among them; with d < 0 it
\* prints every record reachable from a; with d = 0 it prints nothing.
C5_DepthLevels ==
  Returned("owners") =>
    LET a == call.address
        d == call.depth
    IN /\ d = 0 => out = <<>>
       /\ d > 0 =>
            /\ \A i \in Lines("record") :
                 /\ out[i].level <= d
                 /\ out[i].level = 0 <=> (i = 1 /\ out[i].address = a)
            /\ a \in DOMAIN memory => out[1] = Line("record", 0, a, memory[a].id)
            /\ OwnerAddresses(a) \cap DOMAIN memory \subseteq PrintedAddresses("record")
       /\ d < 0 => PrintedAddresses("record") = Reachable(a) \cap DOMAIN memory

\* PrintOwners(a, 2) has printed a record at level 2 and has left a reachable
\* record out.
C5_Witness ==
  /\ Returned("owners")
  /\ call.depth = 2
  /\ \E i \in Lines("record") : out[i].level = 2
  /\ ~(Reachable(call.address) \cap DOMAIN memory \subseteq PrintedAddresses("record"))

\* C6: PrintOwners(a, d) with d > 0 prints every record within d owner hops
\* of a.
C6_OwnersToDepth ==
  (Returned("owners") /\ call.depth > 0 /\ call.address \in DOMAIN memory) =>
    Within({call.address}, call.depth) \cap DOMAIN memory \subseteq PrintedAddresses("record")

\* Steps a query is run for when its outcome is computed as a whole.
MaxSteps == 16

RECURSIVE run(_, _)
run(m, fuel) ==
  IF m.status \in {"returned", "panic"} \/ fuel = 0 THEN m ELSE run(step(m), fuel - 1)

\* The outcome of query q on a climber with the index c that no query has been
\* called on before.
Fresh(c, q) ==
  LET first == Machine([c EXCEPT !.visited = makeVisited], q.op)
      m == CASE q.op = "owners" ->
                  run(printOwners(first, q.address, PrintOwnersDepth(q.depth), 0), MaxSteps)
             [] q.op = "anchors" -> run(printAnchors(first, q.address), MaxSteps)
             [] q.op = "image" -> run(addNode(first, q.address, TRUE), MaxSteps)
             [] q.op = "hexdump" -> hexdump(first, q.address)
  IN [status |-> m.status, out |-> m.out, result |-> m.result, graph |-> m.graph]

\* C7: every step of every query leaves params, memory, owners and finalizers
\* as they are, and a query that returns, whatever queries ran before it, has
\* the output and the error of the same query on a climber no query has run on.
C7_QueriesStateFree ==
  [][ pc \notin {"start", "reading"} =>
        /\ UNCHANGED cvars
        /\ pc' = "done" =>
             Fresh(Running.c, call') =
               [status |-> "returned", out |-> out', result |-> result', graph |-> graph'] ]_vars

\* A query with a visited-set of two or more addresses has returned on a
\* climber another query had run on.
C7_Witness ==
  /\ pc = "done"
  /\ queries >= 2
  /\ call.op \in {"owners", "anchors", "image"}
  /\ Len(expanded) >= 2
  /\ out # <<>>

\* C14: in PrintOwners and in PrintAnchors every error a recursive call has
\* returned is printed, and a call on a start address that has a record does
\* not return an error.
C14_BranchErrorsPrinted ==
  call.op \in {"owners", "anchors"} =>
    /\ \A k \in 1..Len(raised) : raised[k].address \in PrintedAddresses("error")
    /\ (pc = "done" /\ call.address \in DOMAIN memory) => result = NoError

\* C15: PrintOwners(a, d) with d # 0 and PrintAnchors(a), called with an a that
\* is no key of memory, print nothing and return the record-not-found error for
\* a, and the program that called them is not aborted by that error.
C15_MissingStartAddress ==
  (/\ call.op \in {"owners", "anchors"}
   /\ call.address \notin DOMAIN memory
   /\ call.op = "owners" => call.depth # 0)
    => /\ pc = "done"
       /\ out = <<>>
       /\ result = [what |-> "notfound", address |-> call.address]
       /\ ~mainPanics(call.op, result)

\* C16: Hexdump(a) returns an error and no text when a has no record or the
\* record at a is no Owner; otherwise it returns no error, and its text ends
\* with one pointer line for each entry of the record's field list, in the
\* order of the list, showing the offset as the list holds it.
C16_HexdumpOutput ==
  Returned("hexdump") =>
    IF call.address \notin DOMAIN memory \/ ~Owner(memory[call.address])
    THEN result # NoError /\ out = <<>>
    ELSE /\ result = NoError
         /\ Len(out) = 1 + Len(memory[call.address].Fields)
         /\ out[1].t = "hexdump"
         /\ \A i \in 1..Len(memory[call.address].Fields) :
              out[1 + i] = [t |-> "pointer", level |-> 0,
                            address |-> memory[call.address].Fields[i], id |-> 0]

\* Hexdump has returned the dump of a record with two fields, the second at an
\* offset other than 0.
C16_Witness ==
  /\ Returned("hexdump")
  /\ call.address \in DOMAIN memory
  /\ Owner(memory[call.address])
  /\ Len(memory[call.address].Fields) = 2
  /\ memory[call.address].Fields[2] # 0
  /\ Len(out) = 3

\* C17: the graph WriteImage has built for the address a of an Object holds,
\* for every owner record in owners[a], a node of that owner and an edge from
\* it to the node of a, whatever the length of the Object's contents.
C17_OwnersOfTargetDrawn ==
  (/\ Returned("image")
   /\ call.address \in DOMAIN memory
   /\ memory[call.address].kind = "Object"
   /\ call.address \in DOMAIN owners)
    => \A i \in 1..Len(owners[call.address]) :
         /\ GetAddress(owners[call.address][i]) \in DOMAIN graph.nodes
         /\ \E k \in 1..Len(graph.edges) :
              /\ graph.edges[k].from = GetAddress(owners[call.address][i])
              /\ graph.edges[k].to = call.address

\* The edges to the node of a that the scan has made at dest, in their order.
EdgesAt(a, dest) ==
  LET hit(e) == e.to = a /\ e.dest = dest IN SelectSeq(graph.edges, hit)

OwnersAt(dest) == IF dest \in DOMAIN owners THEN owners[dest] ELSE <<>>

\* The Object nodes of the graph.
ObjectNodes ==
  {a \in DOMAIN graph.nodes : a \in DOMAIN memory /\ memory[a].kind = "Object"}

WellFormed(line) == Len(line) = 2 /\ line[1].isInt /\ line[1].n > 0 /\ line[2].text # ""

\* C19: ReadOids returns no error whatever lines the file has, and it has
\* then loaded every well-formed line: the OID of the line maps to the name of
\* the last well-formed line with that OID.
C19_MalformedLinesSkipped ==
  pc \in {"done", "failed"} =>
    /\ oidErr = "nil"
    /\ pc = "done"
    /\ \A i \in 1..Len(oidFile) :
         WellFormed(oidFile[i]) =>
           /\ oidFile[i][1].n \in DOMAIN oidMap
           /\ \E j \in i..Len(oidFile) :
                /\ WellFormed(oidFile[j])
                /\ oidFile[j][1].n = oidFile[i][1].n
                /\ oidMap[oidFile[i][1].n] = oidFile[j][2].text

\* What PrintRecords is to print for the records rs under the search pattern:
\* for each Object whose Name matches, its line and the lines of its pointers
\* that are not 0, and the line of the EndOfFile record.
RECURSIVE Found(_)
Found(rs) ==
  IF rs = <<>> THEN <<>>
  ELSE LET r == rs[Len(rs)]
           p1 == IF \E k \in 1..Len(rs) : rs[k].kind = "DumpParams"
                 THEN rs[CHOOSE k \in 1..Len(rs) :
                           /\ rs[k].kind = "DumpParams"
                           /\ \A j \in (k + 1)..Len(rs) : rs[j].kind # "DumpParams"]
                 ELSE Nil
           targets == [i \in 1..Len(r.Fields) |->
                        LET b == SubSeq(r.Contents, r.Fields[i] + 1,
                                        r.Fields[i] + p1.PointerSize)
                        IN IF p1.BigEndian THEN BigEndianUint(b) ELSE LittleEndianUint(b)]
           lines == IF r.kind = "Eof" THEN <<[t |-> "record", id |-> r.id, text |-> "Eof"]>>
                    ELSE IF r.kind = "Object" /\ MatchString(search, NameOf(r, oidMap))
                    THEN <<[t |-> "record", id |-> r.id,
                            text |-> IF NameOf(r, oidMap) = "" THEN "Object"
                                     ELSE NameOf(r, oidMap)]>>
                         \o [k \in 1..Cardinality({i \in 1..Len(r.Fields) : targets[i] # 0}) |->
                              LET i == CHOOSE i \in 1..Len(r.Fields) :
                                         /\ targets[i] # 0
                                         /\ Cardinality({j \in 1..i : targets[j] # 0}) = k
                              IN [t |-> "pointer", i |-> i - 1, at |-> r.Address + r.Fields[i],
                                  to |-> targets[i]]]
                    ELSE <<>>
       IN Found(SubSeq(rs, 1, Len(rs) - 1)) \o lines

\* C20: PrintRecords with a search pattern that is not empty fails on a
\* pattern that does not compile before it has read anything; when it returns
\* without an error it has read up to the first EndOfFile record and no
\* further, and has printed, in the order of the file, the Objects whose Name
\* matches, each with its pointers that are not 0, and then the EndOfFile line.
C20_FindPrintsMatchingObjects ==
  search # "" =>
    /\ Compile(search) # "nil" =>
         (pc = "start" \/ (pc = "failed" /\ pos = 1 /\ read = <<>> /\ out = <<>>))
    /\ pc = "done" =>
         /\ out = Found(read)
         /\ read[Len(read)].kind = "Eof"
         /\ \A k \in 1..(Len(read) - 1) : read[k].kind # "Eof"
         /\ out[Len(out)].id = Len(read)

\* A search has returned after printing a named Object that matches, with a
\* pointer line, and passing over an Object that does not match.
C20_Witness ==
  /\ pc = "done"
  /\ search = "b"
  /\ Len(out) = 3
  /\ out[2].t = "pointer"
  /\ \E k \in 1..Len(read) : read[k].kind = "Object" /\ NameOf(read[k], oidMap) = "a"
  /\ pos <= Len(stream)

\* C21: after a successful build every record in a list of owners is the
\* record memory holds at that record's own address.
C21_OwnersAreTheirMemoryRecord ==
  pc = "done" =>
    \A x \in DOMAIN owners :
      \A i \in 1..Len(owners[x]) :
        /\ GetAddress(owners[x][i]) \in DOMAIN memory
        /\ memory[GetAddress(owners[x][i])] = owners[x][i]

\* A field of r whose pointer would not lie within the contents of r.
OutOfContents(r, p) == \E k \in 1..Len(r.Fields) : r.Fields[k] + p.PointerSize > Len(r.Contents)

\* C22: no pointer is decoded from beyond an owner's contents: reading an
\* Owner with a field offset f such that f + PointerSize > len(contents) fails
\* at that record and adds nothing to owners, so every record in a list of
\* owners has all its fields within its contents.
C22_PointersWithinContents ==
  [][ /\ (/\ pc = "reading"
          /\ Len(read') > Len(read)
          /\ Owner(read'[Len(read')])
          /\ params # Nil
          /\ OutOfContents(read'[Len(read')], params))
        => (pc' = "panicked" /\ owners' = owners)
      /\ \A x \in DOMAIN owners' :
           \A i \in 1..Len(owners'[x]) :
             ~OutOfContents(owners'[x][i], ParamsAt(owners'[x][i].id)) ]_vars

\* build has failed at an Owner whose field lies partly beyond its contents,
\* under parameters with a supported pointer size, after recording an owner.
C22_Witness ==
  /\ pc = "panicked"
  /\ params # Nil
  /\ params.PointerSize = 2
  /\ owners # EmptyMap
  /\ Len(read) > 0
  /\ Owner(read[Len(read)])
  /\ \E k \in 1..Len(read[Len(read)].Fields) :
       /\ read[Len(read)].Fields[k] < Len(read[Len(read)].Contents)
       /\ read[Len(read)].Fields[k] + 2 > Len(read[Len(read)].Contents)

\* C23: an Object that was read has the class name of its OID exactly if its
\* contents are 8 bytes or longer and oidMap has the OID of their first 8
\* bytes, read little endian; any other Object has no name.
C23_ObjectsNamedByOid ==
  \A i \in 1..Len(read) :
    read[i].kind = "Object" =>
      IF /\ Len(read[i].Contents) >= 8
         /\ LittleEndianUint(SubSeq(read[i].Contents, 1, 8)) \in DOMAIN oidMap
      THEN NameOf(read[i], oidMap) = oidMap[LittleEndianUint(SubSeq(read[i].Contents, 1, 8))]
      ELSE NameOf(read[i], oidMap) = ""

\* C24: the walk along ChildPointer in PrintAnchors and in fullStack does not
\* crash where the pointer is 0 or names an address that has no record: there
\* it ends, and the query goes on.
C24_FrameWalkEndsNormally ==
  ~(/\ pc = "panicked"
    /\ call.op \in {"anchors", "image"}
    /\ (childPtr = 0 \/ childPtr \notin DOMAIN memory))

\* C25: the construction of the graph terminates: WriteImage, once called,
\* returns, whatever the owner edges and the ChildPointer values are.
C25_GraphConstructionTerminates ==
  (call.op = "image" /\ pc \in {"image", "stack"}) ~> (pc \in {"done", "panicked"})

\* C26: the visited-set belongs to one query.  While PrintOwners or
\* PrintAnchors runs, visited is a map that holds only addresses this query can
\* reach from its start address; while WriteImage runs it is a map; and once a
\* query has returned, with or without an error, visited is nil.
C26_VisitedScopedToQuery ==
  /\ pc \in {"done", "panicked"} => visited = NilVisited
  /\ pc \in {"owners", "anchors", "walk", "image", "stack"} => ~visited.isNil
  /\ pc \in {"owners", "anchors", "walk"} =>
       visited.keys \subseteq ({call.address} \cup Reachable(call.address))

\* A second query has returned an error, and visited is nil.
C26_Witness ==
  /\ pc = "done"
  /\ queries >= 2
  /\ call.op \in {"owners", "anchors"}
  /\ result # NoError
  /\ visited = NilVisited

\* C27: in the index that build leaves, every record in a list of owners is an
\* Owner whose address is a key of memory, 0 is no key of owners and no list of
\* owners is empty; and no recursive call of PrintOwners or PrintAnchors
\* returns the record-not-found error.
C27_OwnersAreInMemory ==
  /\ 0 \notin DOMAIN owners
  /\ \A x \in DOMAIN owners :
       /\ owners[x] # <<>>
       /\ \A i \in 1..Len(owners[x]) :
            /\ owners[x][i].kind \in {"Object", "StackFrame", "BssSegment", "DataSegment"}
            /\ owners[x][i].Address \in DOMAIN memory
  /\ \A k \in 1..Len(raised) : raised[k].what # "notfound"

\* A query has returned after a recursive call has returned an error, on an
\* index that has an owner whose record holds a nil pointer.
C27_Witness ==
  /\ pc = "done"
  /\ call.op \in {"owners", "anchors"}
  /\ raised # <<>>
  /\ \E i \in 1..Len(read) : read[i].Contents = <<0, 0, 2, 0>>

\* C28: PrintOwners(a, d) with d # 0 on an address a of memory, whatever the
\* variant of the record there, does not crash and prints the display line of
\* that record, once, before anything else.
C28_EveryRecordHasADisplayLine ==
  (call.op = "owners" /\ call.depth # 0 /\ call.address \in DOMAIN memory)
    => /\ pc # "panicked"
       /\ out # <<>>
       /\ out[1] = Line("record", 0, call.address, memory[call.address].id)
       /\ \A k \in 2..Len(out) : out[k].level > 0


\* C29: every address whose record PrintOwners(a, -1) prints, for an a in
\* memory, is the address of a node of the graph WriteImage builds for a.
C29_PrintedOwnersAreNodes ==
  (/\ Returned("owners")
   /\ call.depth = -1
   /\ call.address \in DOMAIN memory
   /\ Fresh(Running.c, [op |-> "image", address |-> call.address, depth |-> 0]).status
        = "returned")
    => PrintedAddresses("record")
         \subseteq DOMAIN Fresh(Running.c,
                                [op |-> "image", address |-> call.address, depth |-> 0]).graph.nodes


\* C30: the count in the line "Rendering graph (N nodes)" that WriteImage
\* prints is the number of nodes of the graph it has built, whether the start
\* address has a record or not.
C30_NodeCountIsGraphSize ==
  Returned("image") =>
    /\ Lines("rendering") # {}
    /\ \A k \in Lines("rendering") : out[k].id = Cardinality(DOMAIN graph.nodes)

====
